---- MODULE Spec2Model ----
(***************************************************************************)
(* Tic Tac Toe backend: the rules engine (domain/game_logic.py), the        *)
(* in-memory repository (storage/repository.py) and the orchestration      *)
(* service (services/game_service.py), run by concurrent worker threads.   *)
(*                                                                         *)
(* Python values: a str is a TLA+ string, None is the reserved string      *)
(* None below, an Optional[int] is a set with at most one element, a dict  *)
(* game state is a record, a 3x3 list of lists is a function               *)
(* [0..2 -> [0..2 -> Cell]], a list is a sequence.                         *)
(***************************************************************************)
EXTENDS Integers, Sequences, FiniteSets, TLC

\* ---------------------------------------------------------------- bounds
\* Coordinates offered to apply_move reach Margin cells outside the board on
\* either side.
Margin == 1
\* The clock advances at most MaxTicks times.
MaxTicks == 1
\* Number of calls that change the repository (create_game and update_game
\* that succeed) in one behaviour of the service.
MaxCommits == 3
\* list_games is called with offset in 0..MaxOffset and limit in 1..MaxLimit.
MaxOffset == 2
MaxLimit == 2
\* Number of HTTP requests served in one behaviour of the application.
MaxRequests == 3
\* Number of game state dicts built (by create_new_game and apply_move) in
\* one behaviour of the service with its objects.
MaxObjects == 3

\* ------------------------------------------------------- program constants
BoardSize == 3
SecondsPerMinute == 60
\* One advance of the clock: just over a TTL of one minute.
TickSeconds == SecondsPerMinute + 1

None == "<None>"
Players == {"X", "O"}
Modes == {"pvp", "ai"}
Difficulties == {"easy", "hard"}
Idx == 0..(BoardSize - 1)
CoordInputs == (0 - Margin)..(BoardSize - 1 + Margin)

\* str(x) for the values an 'id' field can hold: str(None) is "None".
Str(x) == IF x = None THEN "None" ELSE x

\* The order of Python's < on the str keys the repository's dict can hold
\* here (code points: "N" is before "g").
SortedKeys == <<"None", "g1", "g2">>
StrRank(x) == CHOOSE i \in 1..Len(SortedKeys) : SortedKeys[i] = x
StrLess(a, b) == StrRank(a) < StrRank(b)

\* ------------------------------------------------------------ rules engine
_empty_board == [r \in Idx |-> [c \in Idx |-> ""]]

\* Mutant: the mover is not alternated.
_next_player_after_same(current) == current

_next_player_after(current) ==
    IF current = None THEN None
    ELSE IF current = "X" THEN "O" ELSE "X"

\* Mutant: the difficulty is kept whatever the mode.
create_new_game_keeps_difficulty(game_id, first_player, mode, ai_difficulty) ==
    [ id            |-> game_id,
      board         |-> [r \in 0..(BoardSize - 1) |-> [c \in 0..(BoardSize - 1) |-> ""]],
      next_player   |-> first_player,
      status        |-> "in_progress",
      mode          |-> mode,
      ai_difficulty |-> ai_difficulty,
      first_player  |-> first_player,
      moves         |-> 0 ]

create_new_game(game_id, first_player, mode, ai_difficulty) ==
    [ id            |-> game_id,
      board         |-> _empty_board,
      next_player   |-> first_player,
      status        |-> "in_progress",
      mode          |-> mode,
      ai_difficulty |-> IF mode = "ai" THEN ai_difficulty ELSE None,
      first_player  |-> first_player,
      moves         |-> 0 ]

\* The cells in the order of the two nested range(3) loops.
RowMajor ==
    [i \in 1..(BoardSize * BoardSize) |->
        <<(i - 1) \div BoardSize, (i - 1) % BoardSize>>]

\* Mutant: every cell is listed, empty or not.
available_moves_all(board) == RowMajor

available_moves(board) ==
    SelectSeq(RowMajor, LAMBDA m : board[m[1]][m[2]] = "")

\* Mutant: the main diagonal is listed twice and the other one never.
_lines_one_diagonal(board) ==
    LET rows  == [i \in 1..BoardSize |-> [j \in 1..BoardSize |-> board[i - 1][j - 1]]]
        cols  == [i \in 1..BoardSize |-> [j \in 1..BoardSize |-> board[j - 1][i - 1]]]
        diags == << <<board[0][0], board[1][1], board[2][2]>>,
                    <<board[0][0], board[1][1], board[2][2]>> >>
    IN  rows \o cols \o diags

_lines(board) ==
    LET rows  == [i \in 1..BoardSize |-> [j \in 1..BoardSize |-> board[i - 1][j - 1]]]
        cols  == [i \in 1..BoardSize |-> [j \in 1..BoardSize |-> board[j - 1][i - 1]]]
        diags == << <<board[0][0], board[1][1], board[2][2]>>,
                    <<board[0][2], board[1][1], board[2][0]>> >>
    IN  rows \o cols \o diags

\* The first line, in the order given, that one mark fills; 0 when none does.
FirstFullLine(lines) ==
    LET full == {i \in 1..Len(lines) :
                    /\ lines[i][1] # ""
                    /\ lines[i][1] = lines[i][2]
                    /\ lines[i][2] = lines[i][3]}
    IN  IF full = {} THEN 0 ELSE CHOOSE i \in full : \A j \in full : i <= j

\* Mutant: a full board without a line is left undecided.
WinnerIn_never_draw(lines, board) ==
    LET i == FirstFullLine(lines)
    IN  IF i # 0 THEN lines[i][1] ELSE None

WinnerIn(lines, board) ==
    LET i == FirstFullLine(lines)
    IN  IF i # 0 THEN lines[i][1]
        ELSE IF available_moves(board) = << >> THEN "draw"
        ELSE None

check_winner(board) == WinnerIn(_lines(board), board)

\* Mutant: a draw is not told from an undecided board.
_derive_status_from_winner_no_draw(winner) ==
    IF winner = "X" THEN "x_won"
    ELSE IF winner = "O" THEN "o_won"
    ELSE "in_progress"

_derive_status_from_winner(winner) ==
    IF winner = "X" THEN "x_won"
    ELSE IF winner = "O" THEN "o_won"
    ELSE IF winner = "draw" THEN "draw"
    ELSE "in_progress"

\* Mutant: the occupied-cell check is missing.
apply_move_error_no_occupied_check(state, row, col) ==
    IF state.status # "in_progress" THEN "Game is not in progress."
    ELSE IF ~(0 <= row /\ row < BoardSize /\ 0 <= col /\ col < BoardSize)
        THEN "Move out of bounds."
    ELSE IF state.next_player = None THEN "No next player assigned."
    ELSE None

\* Mutant: the bounds are checked before the status.
apply_move_error_bounds_first(state, row, col) ==
    IF ~(0 <= row /\ row < BoardSize /\ 0 <= col /\ col < BoardSize)
        THEN "Move out of bounds."
    ELSE IF state.status # "in_progress" THEN "Game is not in progress."
    ELSE IF state.next_player = None THEN "No next player assigned."
    ELSE IF state.board[row][col] # "" THEN "Cell already occupied."
    ELSE None

\* The message of the ValueError apply_move raises, None when it raises none.
apply_move_error(state, row, col) ==
    IF state.status # "in_progress" THEN "Game is not in progress."
    ELSE IF ~(0 <= row /\ row < BoardSize /\ 0 <= col /\ col < BoardSize)
        THEN "Move out of bounds."
    ELSE IF state.next_player = None THEN "No next player assigned."
    ELSE IF state.board[row][col] # "" THEN "Cell already occupied."
    ELSE None

\* Mutant: next_player is alternated even when the move ended the game.
apply_move_alternates_on_end(state, row, col) ==
    LET current_player == state.next_player
        board  == [state.board EXCEPT ![row][col] = current_player]
        status == _derive_status_from_winner(check_winner(board))
    IN  [state EXCEPT !.board = board,
                      !.next_player = _next_player_after(current_player),
                      !.status = status,
                      !.moves = state.moves + 1]

\* Mutant: moves is not incremented.
apply_move_no_increment(state, row, col) ==
    LET current_player == state.next_player
        board  == [state.board EXCEPT ![row][col] = current_player]
        status == _derive_status_from_winner(check_winner(board))
    IN  [state EXCEPT !.board = board,
                      !.next_player = IF status = "in_progress"
                                      THEN _next_player_after(current_player)
                                      ELSE None,
                      !.status = status]

\* Mutant: the new state does not carry ai_difficulty over.
apply_move_drops_difficulty(state, row, col) ==
    LET current_player == state.next_player
        board  == [state.board EXCEPT ![row][col] = current_player]
        status == _derive_status_from_winner(check_winner(board))
    IN  [state EXCEPT !.board = board,
                      !.next_player = IF status = "in_progress"
                                      THEN _next_player_after(current_player)
                                      ELSE None,
                      !.status = status,
                      !.ai_difficulty = None,
                      !.moves = state.moves + 1]

\* Mutant: the winner is looked for on the board before the mark is placed.
apply_move_evaluates_old_board(state, row, col) ==
    LET current_player == state.next_player
        board  == [state.board EXCEPT ![row][col] = current_player]
        status == _derive_status_from_winner(check_winner(state.board))
    IN  [state EXCEPT !.board = board,
                      !.next_player = IF status = "in_progress"
                                      THEN _next_player_after(current_player)
                                      ELSE None,
                      !.status = status,
                      !.moves = state.moves + 1]

\* Mutant: next_player is left as it was.
apply_move_keeps_next_player(state, row, col) ==
    LET current_player == state.next_player
        board  == [state.board EXCEPT ![row][col] = current_player]
        status == _derive_status_from_winner(check_winner(board))
    IN  [state EXCEPT !.board = board,
                      !.status = status,
                      !.moves = state.moves + 1]

\* The state apply_move returns when it raises nothing.
apply_move(state, row, col) ==
    LET current_player == state.next_player
        board  == [state.board EXCEPT ![row][col] = current_player]
        winner == check_winner(board)
        status == _derive_status_from_winner(winner)
        next_player == IF status = "in_progress"
                       THEN _next_player_after(current_player)
                       ELSE None
    IN  [state EXCEPT !.board = board,
                      !.next_player = next_player,
                      !.status = status,
                      !.moves = state.moves + 1]

\* -------------------------------------------------------------- move policy
\* random.choice(moves): the set of values it can return. The empty set stands
\* for the return value None.
_ai_easy_pick(moves) == {moves[i] : i \in 1..Len(moves)}

_ai_hard_pick(state) == _ai_easy_pick(available_moves(state.board))

\* Mutant: the status of the game is not looked at.
ai_pick_move_any_status(state, difficulty) ==
    IF state.mode # "ai" THEN {}
    ELSE LET moves == available_moves(state.board)
         IN  IF moves = << >> THEN {}
             ELSE IF difficulty = "hard" THEN _ai_hard_pick(state)
             ELSE _ai_easy_pick(moves)

ai_pick_move(state, difficulty) ==
    IF state.status # "in_progress" THEN {}
    ELSE IF state.mode # "ai" THEN {}
    ELSE LET moves == available_moves(state.board)
         IN  IF moves = << >> THEN {}
             ELSE IF difficulty = "hard" THEN _ai_hard_pick(state)
             ELSE _ai_easy_pick(moves)

\* --------------------------------------------------------------- repository
\* self._games is a function whose domain is the set of keys present.
\* Each operator below is one critical section (with self._lock); it gives the
\* dict afterwards, the exception raised (exc = None when none) and the value
\* returned. t_now is what time.time() reads inside it.
EmptyGames == [k \in {} |-> 0]

_StoredGame(state, created_at) == [state |-> state, created_at |-> created_at]

\* InMemoryRepository.__init__: game_ttl_minutes is {} for None, else {m}.
InitTtlSeconds(game_ttl_minutes) ==
    {m * SecondsPerMinute : m \in {x \in game_ttl_minutes : x > 0}}

\* Mutant: an entry expires as soon as its age reaches the TTL.
_is_expired_at_ttl(stored, t_now, ttl) ==
    IF ttl = {} THEN FALSE
    ELSE \E s \in ttl : (t_now - stored.created_at) >= s

_is_expired(stored, t_now, ttl) ==
    IF ttl = {} THEN FALSE
    ELSE \E s \in ttl : (t_now - stored.created_at) > s

Without(gs, game_id) == [k \in (DOMAIN gs) \ {game_id} |-> gs[k]]

_get_if_present_and_not_expired(gs, game_id, t_now, ttl) ==
    IF game_id \notin DOMAIN gs
        THEN [games |-> gs, found |-> FALSE]
    ELSE IF _is_expired(gs[game_id], t_now, ttl)
        THEN [games |-> Without(gs, game_id), found |-> FALSE]
    ELSE [games |-> gs, found |-> TRUE, state |-> gs[game_id].state]

get_game(gs, game_id, t_now, ttl) ==
    _get_if_present_and_not_expired(gs, game_id, t_now, ttl)

\* Mutant: create_game stores the record whether or not the key is taken.
create_game_overwrites(gs, game, t_now) ==
    LET game_id == Str(game.id)
    IN  IF game_id = ""
            THEN [games |-> gs, exc |-> "ValueError",
                  msg |-> "Game must have an 'id' field."]
        ELSE [games |-> [k \in (DOMAIN gs) \cup {game_id} |->
                            IF k = game_id THEN _StoredGame(game, t_now)
                            ELSE gs[k]],
              exc |-> None, msg |-> None, state |-> game]

create_game(gs, game, t_now) ==
    LET game_id == Str(game.id)
    IN  IF game_id = ""
            THEN [games |-> gs, exc |-> "ValueError",
                  msg |-> "Game must have an 'id' field."]
        ELSE IF game_id \in DOMAIN gs
            THEN [games |-> gs, exc |-> "ValueError",
                  msg |-> "Game with id already exists."]
        ELSE [games |-> [k \in (DOMAIN gs) \cup {game_id} |->
                            IF k = game_id THEN _StoredGame(game, t_now)
                            ELSE gs[k]],
              exc |-> None, msg |-> None, state |-> game]

\* Mutant: a rejected update also drops the expired entry, as get_game does.
update_game_evicts(gs, game, t_now, ttl) ==
    LET game_id == Str(game.id)
    IN  IF game_id = ""
            THEN [games |-> gs, exc |-> "ValueError",
                  msg |-> "Game must have an 'id' field."]
        ELSE IF game_id \notin DOMAIN gs
            THEN [games |-> gs, exc |-> "KeyError",
                  msg |-> "Game with id not found."]
        ELSE IF _is_expired(gs[game_id], t_now, ttl)
            THEN [games |-> Without(gs, game_id), exc |-> "KeyError",
                  msg |-> "Game with id not found."]
        ELSE [games |-> [gs EXCEPT ![game_id].state = game],
              exc |-> None, msg |-> None, state |-> game]

\* Mutant: an update stamps the entry with the time of the update.
update_game_restamps(gs, game, t_now, ttl) ==
    LET game_id == Str(game.id)
    IN  IF game_id = ""
            THEN [games |-> gs, exc |-> "ValueError",
                  msg |-> "Game must have an 'id' field."]
        ELSE IF game_id \notin DOMAIN gs \/ _is_expired(gs[game_id], t_now, ttl)
            THEN [games |-> gs, exc |-> "KeyError",
                  msg |-> "Game with id not found."]
        ELSE [games |-> [gs EXCEPT ![game_id] = _StoredGame(game, t_now)],
              exc |-> None, msg |-> None, state |-> game]

update_game(gs, game, t_now, ttl) ==
    LET game_id == Str(game.id)
    IN  IF game_id = ""
            THEN [games |-> gs, exc |-> "ValueError",
                  msg |-> "Game must have an 'id' field."]
        ELSE IF game_id \notin DOMAIN gs \/ _is_expired(gs[game_id], t_now, ttl)
            THEN [games |-> gs, exc |-> "KeyError",
                  msg |-> "Game with id not found."]
        ELSE [games |-> [gs EXCEPT ![game_id].state = game],
              exc |-> None, msg |-> None, state |-> game]

\* Mutant: the sort ignores created_at.
SortsBefore_by_id(gs, a, b) == StrLess(a, b)

\* The sort key of list_games, (created_at, id): whether the item of key a
\* sorts before the item of key b.
SortsBefore(gs, a, b) ==
    \/ gs[a].created_at < gs[b].created_at
    \/ gs[a].created_at = gs[b].created_at /\ StrLess(a, b)

\* sorted(self._games.items(), key=...): the keys in sorted order.
SortedItems(gs) ==
    [i \in 1..Cardinality(DOMAIN gs) |->
        CHOOSE k \in DOMAIN gs :
            Cardinality({j \in DOMAIN gs : SortsBefore(gs, j, k)}) = i - 1]

\* Mutant: the slice takes the item at offset + limit too.
Slice_inclusive(items, offset, limit) ==
    LET stop == IF offset + limit + 1 < Len(items) THEN offset + limit + 1
                ELSE Len(items)
    IN  [i \in 1..(IF stop > offset THEN stop - offset ELSE 0) |-> items[offset + i]]

\* items[offset : offset + limit] for offset >= 0 and limit >= 0.
Slice(items, offset, limit) ==
    LET stop == IF offset + limit < Len(items) THEN offset + limit ELSE Len(items)
    IN  [i \in 1..(IF stop > offset THEN stop - offset ELSE 0) |-> items[offset + i]]

\* Mutant: list_games does not sweep.
Sweep_nothing(gs, t_now, ttl) == gs

\* The lazy sweep of list_games: the entries that stay.
Sweep(gs, t_now, ttl) ==
    IF ttl = {} THEN gs
    ELSE LET keep == {k \in DOMAIN gs :
                         ~(\E s \in ttl : (t_now - gs[k].created_at) > s)}
         IN  [k \in keep |-> gs[k]]

list_games(gs, offset, limit, t_now, ttl) ==
    LET swept == Sweep(gs, t_now, ttl)
        page == Slice(SortedItems(swept), offset, limit)
    IN  [games |-> swept,
         page |-> [i \in 1..Len(page) |-> swept[page[i]].state]]

\* to_game_state_response: the id through str(), '' cells as None.
to_game_state_response(game) ==
    [ id            |-> Str(game.id),
      board         |-> [r \in Idx |-> [c \in Idx |->
                            IF game.board[r][c] # "" THEN game.board[r][c]
                            ELSE None]],
      next_player   |-> game.next_player,
      status        |-> game.status,
      mode          |-> game.mode,
      ai_difficulty |-> game.ai_difficulty,
      first_player  |-> game.first_player,
      moves         |-> game.moves ]

\* --------------------------------------------------------------- variables
VARIABLES
    state,      \* rules engine: the current state of one game lineage
    last,       \* rules engine: how the last apply_move call ended: "ok" with
                \* the cell and the mark placed, or the message it raised
    nApplied,   \* rules engine: number of apply_move calls that succeeded
    board,      \* evaluation: a board handed to check_winner
    outcome,    \* evaluation: what check_winner returned, "pending" before
    games,      \* repository: self._games
    ttl_seconds, \* repository: self._ttl_seconds
    now,        \* the clock time.time() reads
    pc,         \* per thread: "idle", or the handler it is in between its
                \* get_game and its update_game
    upd,        \* per thread: the local 'updated' of that handler
    move,       \* per thread: the local 'move' of ai_move, an Optional
    ret,        \* the call that ended last: operation, id, exception; for
                \* an ai_move that returned, also the pair it returned
    okMoves,    \* per id: moves of the record it was created with, plus the
                \* make_move and ai_move calls on it that returned a move since
    usedIds,    \* the uuid4 values drawn so far
    commits,    \* number of create_game and update_game commits that succeeded
    fresh,      \* repository alone: per key, the record the last create_game
                \* that succeeded for it was given and the time of that call,
                \* until an update_game for that key succeeds
    lock,       \* self._lock: the set of the thread that holds it, or {}
    call,       \* per thread: the repository call it is in, and where
    dicts,      \* objects: the game state dicts by address
    lists,      \* objects: the board lists by address
    bound,      \* objects: per key, the address self._games[key].state holds
    held,       \* objects: the references a caller was handed, each with
                \* the value the dict had when it was handed over
    local,      \* objects: per thread, the address of the dict apply_move
                \* returned to it and update_game is still to store (0: none)
    repos       \* HTTP layer: the dict of the repository each request so
                \* far was given, as its handler left it

rulesVars == <<state, last, nApplied>>
evalVars == <<board, outcome>>
svcVars == <<games, ttl_seconds, now, pc, upd, move, ret, okMoves, usedIds,
             commits>>
repoVars == <<fresh, lock, call>>
heapVars == <<dicts, lists, bound, held, local>>
httpVars == <<repos>>
vars == <<state, last, nApplied, board, outcome,
          games, ttl_seconds, now, pc, upd, move, ret, okMoves, usedIds,
          commits, fresh, lock, call, dicts, lists, bound, held, local, repos>>

Threads == {"t1", "t2"}
GameIds == {"g1"}
\* game_ttl_minutes values the repository is constructed with: None, 0, 1.
TtlMinutesInputs == {{}, {0}, {1}}
\* ai_difficulty values of create_new_game.
DifficultyInputs == Difficulties \cup {None}
\* (row, col) of the move requests: outside the board on either side, and
\* cells of the top row and the right column.
MoveInputs == {<<0 - Margin, 0>>, <<0, BoardSize - 1 + Margin>>,
               <<0, 0>>, <<0, 2>>, <<1, 2>>, <<2, 2>>}
\* (offset, limit) of the list requests of the service: the first page, and
\* a page past the last game.
ListInputs == {<<0, MaxLimit>>, <<1, MaxLimit>>}
\* (mode, ai_difficulty, first_player) of the start requests.
StartInputs == {<<"pvp", "easy", "X">>}

\* The state a new game is in after the moves of `moves` are applied in turn.
RECURSIVE Play(_, _)
Play(game, moves) ==
    IF moves = << >> THEN game
    ELSE Play(apply_move(game, moves[1][1], moves[1][2]), Tail(moves))

\* Positions reached by play: X to move and one move from a win (O too),
\* and X to move into the last empty cell, which draws.
NearWin(game_id, mode, ai_difficulty) ==
    Play(create_new_game(game_id, "X", mode, ai_difficulty),
         << <<0, 0>>, <<1, 0>>, <<0, 1>>, <<1, 1>> >>)
NearDraw(game_id) ==
    Play(create_new_game(game_id, "X", "pvp", None),
         << <<0, 0>>, <<0, 1>>, <<0, 2>>, <<1, 1>>, <<1, 0>>, <<1, 2>>,
            <<2, 1>>, <<2, 0>> >>)

\* The records handed to InMemoryRepository.create_game directly: the
\* positions above, and a new game whose id is empty.
CreateInputs ==
    UNION {{NearWin(id, "pvp", None),
            NearWin(id, "ai", "easy"),
            NearDraw(id)} : id \in GameIds}
    \cup {create_new_game("", "X", "pvp", None)}

NoState == create_new_game("", "X", "pvp", None)
NoLast == [kind |-> "none"]
NoRet == [op |-> None, id |-> None, exc |-> None, msg |-> None]

RulesIdle == state = NoState /\ last = NoLast /\ nApplied = 0
EvalIdle == board = _empty_board /\ outcome = "pending"
NoCall == [at |-> "idle"]
LockIdle == lock = {} /\ call = [t \in Threads |-> NoCall]
HeapIdle ==
    /\ dicts = << >>
    /\ lists = << >>
    /\ bound = EmptyGames
    /\ held = {}
    /\ local = [t \in Threads |-> 0]
HttpIdle == repos = << >>

SvcIdle ==
    /\ games = EmptyGames
    /\ ttl_seconds = {}
    /\ now = 0
    /\ pc = [t \in Threads |-> "idle"]
    /\ upd = [t \in Threads |-> NoState]
    /\ move = [t \in Threads |-> {}]
    /\ ret = NoRet
    /\ okMoves = [k \in GameIds |-> 0]
    /\ usedIds = {}
    /\ commits = 0
    /\ fresh = EmptyGames
    /\ LockIdle
    /\ HeapIdle
    /\ HttpIdle

\* ------------------------------------------------ rules engine, one lineage
RulesInit ==
    /\ \E fp \in Players, m \in Modes, d \in DifficultyInputs :
          state = create_new_game("g1", fp, m, d)
    /\ last = [kind |-> "new"]
    /\ nApplied = 0
    /\ EvalIdle
    /\ SvcIdle

ApplyMoveOk(row, col) ==
    /\ apply_move_error(state, row, col) = None
    /\ state' = apply_move(state, row, col)
    /\ last' = [kind |-> "ok", row |-> row, col |-> col, player |-> state.next_player]
    /\ nApplied' = nApplied + 1
    /\ UNCHANGED <<evalVars, svcVars, repoVars, heapVars, httpVars>>

ApplyMoveRaises(row, col) ==
    /\ apply_move_error(state, row, col) # None
    /\ last' = [kind |-> apply_move_error(state, row, col)]
    /\ UNCHANGED <<state, nApplied, evalVars, svcVars, repoVars, heapVars, httpVars>>

RulesNext ==
    \E row \in CoordInputs, col \in CoordInputs :
        \/ ApplyMoveOk(row, col)
        \/ ApplyMoveRaises(row, col)

RulesSpec == RulesInit /\ [][RulesNext]_vars


\* ------------------------------------- the move policy on states of play
\* Games started by X, played on by apply_move; ai_pick_move is called on the
\* state reached, with each difficulty.
PickInit ==
    /\ \E m \in Modes, d \in DifficultyInputs :
          state = create_new_game("g1", "X", m, d)
    /\ last = [kind |-> "new"]
    /\ nApplied = 0
    /\ EvalIdle
    /\ SvcIdle

PickPlay(row, col) ==
    /\ apply_move_error(state, row, col) = None
    /\ state' = apply_move(state, row, col)
    /\ last' = [kind |-> "ok"]
    /\ nApplied' = nApplied + 1
    /\ UNCHANGED <<evalVars, svcVars, repoVars, heapVars, httpVars>>

\* ai_pick_move(state, difficulty) returning mv, an Optional (row, col).
AiPickMove(difficulty) ==
    /\ \E mv \in (IF ai_pick_move(state, difficulty) = {} THEN {{}}
                   ELSE {{m} : m \in ai_pick_move(state, difficulty)}) :
          last' = [kind |-> "pick", difficulty |-> difficulty, move |-> mv]
    /\ UNCHANGED <<state, nApplied, evalVars, svcVars, repoVars, heapVars, httpVars>>

PickNext ==
    \/ \E row \in Idx, col \in Idx : PickPlay(row, col)
    \/ \E difficulty \in DifficultyInputs : AiPickMove(difficulty)

PickSpec == PickInit /\ [][PickNext]_vars

\* ------------------------------------------------- a game played to its end
\* A two-player game from create_new_game on: apply_move calls that succeed
\* and apply_move calls that raise. The caller keeps applying legal moves:
\* whenever apply_move can succeed for some cell, a call that succeeds is made
\* in the end.
PlayInit ==
    /\ \E fp \in Players : state = create_new_game("g1", fp, "pvp", None)
    /\ last = [kind |-> "new"]
    /\ nApplied = 0
    /\ EvalIdle
    /\ SvcIdle

PlayOn == \E row \in Idx, col \in Idx : PickPlay(row, col)

PlayNext ==
    \/ PlayOn
    \/ \E rc \in MoveInputs : ApplyMoveRaises(rc[1], rc[2])

PlayFairness == WF_vars(PlayOn)
PlaySpec == PlayInit /\ [][PlayNext]_vars /\ PlayFairness

\* --------------------------------------------- evaluation of arbitrary boards
Cells == {"", "X", "O"}
AllBoards == [Idx -> [Idx -> Cells]]

BoardInit ==
    /\ board \in AllBoards
    /\ outcome = "pending"
    /\ RulesIdle
    /\ SvcIdle

Evaluate ==
    /\ outcome = "pending"
    /\ outcome' = check_winner(board)
    /\ UNCHANGED <<board, rulesVars, svcVars, repoVars, heapVars, httpVars>>

BoardNext == Evaluate

BoardSpec == BoardInit /\ [][BoardNext]_vars

\* ------------------------------------- the service over one shared repository
Init ==
    /\ games = EmptyGames
    /\ \E m \in TtlMinutesInputs : ttl_seconds = InitTtlSeconds(m)
    /\ now = 0
    /\ pc = [t \in Threads |-> "idle"]
    /\ upd = [t \in Threads |-> NoState]
    /\ move = [t \in Threads |-> {}]
    /\ ret = NoRet
    /\ okMoves = [k \in GameIds |-> 0]
    /\ usedIds = {}
    /\ commits = 0
    /\ fresh = EmptyGames
    /\ LockIdle
    /\ HeapIdle
    /\ HttpIdle
    /\ RulesIdle
    /\ EvalIdle

Returns(op, id) == [op |-> op, id |-> id, exc |-> None, msg |-> None]
Raises(op, id, exc, msg) == [op |-> op, id |-> id, exc |-> exc, msg |-> msg]
\* ai_move returning (mv, to_game_state_response(game)); mv is an Optional.
ReturnsPair(op, id, mv, game) ==
    [op |-> op, id |-> id, exc |-> None, msg |-> None,
     move |-> mv, state |-> to_game_state_response(game)]

\* time.time() moves on between critical sections.
Tick ==
    /\ now + TickSeconds <= MaxTicks * TickSeconds
    /\ now' = now + TickSeconds
    /\ UNCHANGED <<games, ttl_seconds, pc, upd, move, ret, okMoves, usedIds, commits,
                   rulesVars, evalVars, repoVars, heapVars, httpVars>>

\* Repository.create_game called with the record `game`.
DoCreate(t, op, game) ==
    LET r == create_game(games, game, now)
    IN  /\ games' = r.games
        /\ IF r.exc = None
           THEN /\ commits < MaxCommits
                /\ commits' = commits + 1
                /\ ret' = Returns(op, Str(game.id))
                /\ okMoves' = [okMoves EXCEPT ![Str(game.id)] = game.moves]
           ELSE /\ ret' = Raises(op, Str(game.id), r.exc, r.msg)
                /\ UNCHANGED <<okMoves, commits>>
        /\ UNCHANGED <<ttl_seconds, now, pc, upd, move, rulesVars, evalVars, repoVars, heapVars, httpVars>>

\* GameService.start_game; game_id is the value uuid.uuid4() gives.
StartGame(t, game_id, mode, ai_difficulty, first_player) ==
    /\ pc[t] = "idle"
    /\ game_id \notin usedIds
    /\ usedIds' = usedIds \cup {game_id}
    /\ DoCreate(t, "start_game",
                create_new_game(game_id, first_player, mode,
                                IF mode = "ai" THEN ai_difficulty ELSE None))

\* InMemoryRepository.create_game called directly with the record `game`.
CreateGame(t, game) ==
    /\ pc[t] = "idle"
    /\ UNCHANGED usedIds
    /\ DoCreate(t, "create_game", game)

\* GameService.get_game_state.
GetGameState(t, game_id) ==
    /\ pc[t] = "idle"
    /\ LET r == get_game(games, game_id, now, ttl_seconds)
       IN  /\ games' = r.games
           /\ ret' = IF r.found THEN Returns("get_game_state", game_id)
                     ELSE Raises("get_game_state", game_id, None, "None")
    /\ UNCHANGED <<ttl_seconds, now, pc, upd, move, okMoves, usedIds, commits,
                   rulesVars, evalVars, repoVars, heapVars, httpVars>>

\* GameService.list_games: the repository's list_games (which sweeps the
\* expired entries out of _games), each item through to_game_state_response.
ListGames(t, offset, limit) ==
    /\ pc[t] = "idle"
    /\ LET r == list_games(games, offset, limit, now, ttl_seconds)
       IN  /\ games' = r.games
           /\ ret' = [op |-> "list_games", id |-> None, exc |-> None,
                      msg |-> None, offset |-> offset, limit |-> limit,
                      value |-> [i \in 1..Len(r.page) |->
                                    to_game_state_response(r.page[i])]]
    /\ UNCHANGED <<ttl_seconds, now, pc, upd, move, okMoves, usedIds, commits,
                   rulesVars, evalVars, repoVars, heapVars, httpVars>>

\* GameService.make_move up to its update_game: get_game, then apply_move.
MakeMoveGet(t, game_id, row, col) ==
    /\ pc[t] = "idle"
    /\ LET r == get_game(games, game_id, now, ttl_seconds)
       IN  /\ games' = r.games
           /\ IF ~r.found
              THEN /\ ret' = Raises("make_move", game_id, "KeyError",
                                    "Game with id not found")
                   /\ UNCHANGED <<pc, upd>>
              ELSE IF apply_move_error(r.state, row, col) # None
              THEN /\ ret' = Raises("make_move", game_id, "ValueError",
                                    apply_move_error(r.state, row, col))
                   /\ UNCHANGED <<pc, upd>>
              ELSE /\ pc' = [pc EXCEPT ![t] = "make_move"]
                   /\ upd' = [upd EXCEPT ![t] = apply_move(r.state, row, col)]
                   /\ UNCHANGED ret
    /\ UNCHANGED <<ttl_seconds, now, move, okMoves, usedIds, commits,
                   rulesVars, evalVars, repoVars, heapVars, httpVars>>

\* GameService.ai_move up to its update_game: get_game, ai_pick_move, apply_move.
AiMoveGet(t, game_id) ==
    /\ pc[t] = "idle"
    /\ LET r == get_game(games, game_id, now, ttl_seconds)
       IN  /\ games' = r.games
           /\ IF ~r.found
              THEN /\ ret' = Raises("ai_move", game_id, "KeyError",
                                    "Game with id not found")
                   /\ UNCHANGED <<pc, upd, move>>
              ELSE IF r.state.mode # "ai"
              THEN /\ ret' = ReturnsPair("ai_move", game_id, {}, r.state)
                   /\ UNCHANGED <<pc, upd, move>>
              ELSE IF ai_pick_move(r.state, r.state.ai_difficulty) = {}
              THEN /\ ret' = ReturnsPair("ai_move", game_id, {}, r.state)
                   /\ UNCHANGED <<pc, upd, move>>
              ELSE \E mv \in ai_pick_move(r.state, r.state.ai_difficulty) :
                   IF apply_move_error(r.state, mv[1], mv[2]) # None
                   THEN /\ ret' = Raises("ai_move", game_id, "ValueError",
                                         apply_move_error(r.state, mv[1], mv[2]))
                        /\ UNCHANGED <<pc, upd, move>>
                   ELSE /\ pc' = [pc EXCEPT ![t] = "ai_move"]
                        /\ upd' = [upd EXCEPT ![t] =
                                      apply_move(r.state, mv[1], mv[2])]
                        /\ move' = [move EXCEPT ![t] = {mv}]
                        /\ UNCHANGED ret
    /\ UNCHANGED <<ttl_seconds, now, okMoves, usedIds, commits, rulesVars, evalVars, repoVars, heapVars, httpVars>>

\* The update_game that ends make_move and ai_move.
MoveUpdate(t) ==
    /\ pc[t] \in {"make_move", "ai_move"}
    /\ LET r == update_game(games, upd[t], now, ttl_seconds)
           id == Str(upd[t].id)
       IN  /\ games' = r.games
           /\ IF r.exc = None
              THEN /\ commits < MaxCommits
                   /\ commits' = commits + 1
                   /\ ret' = IF pc[t] = "ai_move"
                                THEN ReturnsPair(pc[t], id, move[t], r.state)
                             ELSE Returns(pc[t], id)
                   /\ okMoves' = [okMoves EXCEPT ![id] = @ + 1]
              ELSE /\ ret' = Raises(pc[t], id, r.exc, r.msg)
                   /\ UNCHANGED <<okMoves, commits>>
    /\ pc' = [pc EXCEPT ![t] = "idle"]
    /\ upd' = [upd EXCEPT ![t] = NoState]
    /\ move' = [move EXCEPT ![t] = {}]
    /\ UNCHANGED <<ttl_seconds, now, usedIds, rulesVars, evalVars, repoVars, heapVars, httpVars>>

Next ==
    \/ Tick
    \/ \E t \in Threads, id \in GameIds, in \in StartInputs :
          StartGame(t, id, in[1], in[2], in[3])
    \/ \E t \in Threads, game \in CreateInputs : CreateGame(t, game)
    \/ \E t \in Threads, id \in GameIds : GetGameState(t, id)
    \/ \E t \in Threads, in \in ListInputs : ListGames(t, in[1], in[2])
    \/ \E t \in Threads, id \in GameIds, rc \in MoveInputs :
          MakeMoveGet(t, id, rc[1], rc[2])
    \/ \E t \in Threads, id \in GameIds : AiMoveGet(t, id)
    \/ \E t \in Threads : MoveUpdate(t)

Spec == Init /\ [][Next]_vars

\* ------------------------------------------------------ the repository alone
\* Every public method of InMemoryRepository is one critical section, so a
\* call is one step whichever thread makes it.  ret.value is what the call
\* returned: for an Optional[Dict] the set of the dict, empty for None and
\* when the call raised; for list_games the list.

\* The instants time.time() is read at.
RepoTimes == {0, 1, SecondsPerMinute, SecondsPerMinute + 1}
\* The 'id' values of the records handed to create_game and update_game: two
\* ids, no id (game.get("id") is None) and the empty id.
RepoRecordIds == {"g1", "g2", None, ""}
\* The keys get_game is asked for.
RepoKeys == {"g1", "g2", "None"}
RepoNew(id) == create_new_game(id, "X", "pvp", None)
RepoMoved(id) == apply_move(RepoNew(id), 0, 0)
RepoRecords == {RepoNew(id) : id \in RepoRecordIds}
                   \cup {RepoMoved(id) : id \in {"g1", None}}

RepoInit ==
    /\ games = EmptyGames
    /\ \E m \in TtlMinutesInputs : ttl_seconds = InitTtlSeconds(m)
    /\ now = 0
    /\ ret = NoRet
    /\ fresh = EmptyGames
    /\ LockIdle
    /\ HeapIdle
    /\ HttpIdle
    /\ pc = [t \in Threads |-> "idle"]
    /\ upd = [t \in Threads |-> NoState]
    /\ move = [t \in Threads |-> {}]
    /\ okMoves = [k \in GameIds |-> 0]
    /\ usedIds = {}
    /\ commits = 0
    /\ RulesIdle
    /\ EvalIdle

RepoFrame == UNCHANGED <<ttl_seconds, pc, upd, move, okMoves, usedIds, commits,
                         lock, call, rulesVars, evalVars, heapVars, httpVars>>

RepoTick(t_next) ==
    /\ t_next > now
    /\ now' = t_next
    /\ UNCHANGED <<games, ret, fresh>>
    /\ RepoFrame

RepoCreate(game) ==
    LET r == create_game(games, game, now)
    IN  /\ games' = r.games
        /\ ret' = [op |-> "create_game", id |-> game.id, exc |-> r.exc,
                   msg |-> r.msg,
                   value |-> IF r.exc = None THEN {r.state} ELSE {}]
        /\ fresh' = IF r.exc = None
                        THEN [k \in (DOMAIN fresh) \cup {Str(game.id)} |->
                                 IF k = Str(game.id) THEN _StoredGame(game, now)
                                 ELSE fresh[k]]
                     ELSE fresh
        /\ UNCHANGED now
        /\ RepoFrame

RepoGet(game_id) ==
    LET r == get_game(games, game_id, now, ttl_seconds)
    IN  /\ games' = r.games
        /\ ret' = [op |-> "get_game", id |-> game_id, exc |-> None,
                   msg |-> None,
                   value |-> IF r.found THEN {r.state} ELSE {}]
        /\ UNCHANGED <<now, fresh>>
        /\ RepoFrame

RepoUpdate(game) ==
    LET r == update_game(games, game, now, ttl_seconds)
    IN  /\ games' = r.games
        /\ ret' = [op |-> "update_game", id |-> game.id, exc |-> r.exc,
                   msg |-> r.msg,
                   value |-> IF r.exc = None THEN {r.state} ELSE {}]
        /\ fresh' = IF r.exc = None THEN Without(fresh, Str(game.id)) ELSE fresh
        /\ UNCHANGED now
        /\ RepoFrame

RepoList(offset, limit) ==
    LET r == list_games(games, offset, limit, now, ttl_seconds)
    IN  /\ games' = r.games
        /\ ret' = [op |-> "list_games", offset |-> offset, limit |-> limit,
                   exc |-> None, msg |-> None, value |-> r.page]
        /\ UNCHANGED <<now, fresh>>
        /\ RepoFrame

RepoNext ==
    \/ \E t_next \in RepoTimes : RepoTick(t_next)
    \/ \E game \in RepoRecords : RepoCreate(game)
    \/ \E game_id \in RepoKeys : RepoGet(game_id)
    \/ \E game \in RepoRecords : RepoUpdate(game)
    \/ \E offset \in 0..MaxOffset, limit \in 1..MaxLimit : RepoList(offset, limit)

RepoSpec == RepoInit /\ [][RepoNext]_vars

\* ------------------------------------- the repository's lock, step by step
\* A call of a public method by thread t: what precedes 'with self._lock',
\* the acquisition, the body of the with block, and the exit of the block.

\* Mutant: the lock is released only when the block ends by a return.
__exit___on_return(holder, exc) == IF exc = None THEN {} ELSE holder

\* Lock.__exit__ at the end of a with block: the holder after it, whether the
\* block ended by a return (exc = None) or by a raise.
__exit__(holder, exc) == {}

\* The calls made: (method, argument).
LockCalls ==
    {<<"create_game", RepoNew("g1")>>, <<"create_game", RepoNew("")>>,
     <<"update_game", RepoMoved("g1")>>, <<"update_game", RepoNew("")>>,
     <<"get_game", "g1">>, <<"list_games", <<0, MaxLimit>> >>}

LockInit == RepoInit

LockFrame == UNCHANGED <<ttl_seconds, now, pc, upd, move, okMoves, usedIds,
                         commits, fresh, rulesVars, evalVars, heapVars, httpVars>>

\* The method is entered; create_game and update_game raise before the with
\* block when str(game.get("id")) is empty.
Enter(t, op, arg) ==
    /\ call[t].at = "idle"
    /\ IF op \in {"create_game", "update_game"} /\ Str(arg.id) = ""
       THEN /\ ret' = [op |-> op, id |-> arg.id, exc |-> "ValueError",
                       msg |-> "Game must have an 'id' field.", value |-> {}]
            /\ UNCHANGED call
       ELSE /\ call' = [call EXCEPT ![t] = [at |-> "acquire", op |-> op,
                                             arg |-> arg]]
            /\ UNCHANGED ret
    /\ UNCHANGED <<games, lock>>
    /\ LockFrame

\* Lock.__enter__: blocks while another thread holds the lock.
Acquire(t) ==
    /\ call[t].at = "acquire"
    /\ lock = {}
    /\ lock' = {t}
    /\ call' = [call EXCEPT ![t].at = "body"]
    /\ UNCHANGED <<games, ret>>
    /\ LockFrame

\* The value a call returns, as RepoSpec records it.
Outcome(op, arg, r) ==
    IF op = "list_games"
    THEN [op |-> op, offset |-> arg[1], limit |-> arg[2],
          exc |-> None, msg |-> None, value |-> r.page]
    ELSE IF op = "get_game"
    THEN [op |-> op, id |-> arg, exc |-> None, msg |-> None,
          value |-> IF r.found THEN {r.state} ELSE {}]
    ELSE [op |-> op, id |-> arg.id, exc |-> r.exc, msg |-> r.msg,
          value |-> IF r.exc = None THEN {r.state} ELSE {}]

\* The body of the with block, up to its return or raise.
Body(t) ==
    /\ call[t].at = "body"
    /\ LET op == call[t].op
           arg == call[t].arg
           r == IF op = "create_game" THEN create_game(games, arg, now)
                ELSE IF op = "update_game"
                    THEN update_game(games, arg, now, ttl_seconds)
                ELSE IF op = "get_game"
                    THEN get_game(games, arg, now, ttl_seconds)
                ELSE list_games(games, arg[1], arg[2], now, ttl_seconds)
       IN  /\ games' = r.games
           /\ call' = [call EXCEPT ![t] =
                          [at |-> "exit", out |-> Outcome(op, arg, r)]]
    /\ UNCHANGED <<lock, ret>>
    /\ LockFrame

\* The exit of the with block, then the return or raise of the method.
Exit(t) ==
    /\ call[t].at = "exit"
    /\ lock' = __exit__(lock, call[t].out.exc)
    /\ ret' = call[t].out
    /\ call' = [call EXCEPT ![t] = NoCall]
    /\ UNCHANGED games
    /\ LockFrame

LockTick(t_next) ==
    /\ t_next > now
    /\ now' = t_next
    /\ UNCHANGED <<games, ret, fresh, lock, call, ttl_seconds, pc, upd, move,
                   okMoves, usedIds, commits, rulesVars, evalVars,
                   heapVars, httpVars>>

LockNext ==
    \/ \E t_next \in RepoTimes : LockTick(t_next)
    \/ \E t \in Threads, c \in LockCalls : Enter(t, c[1], c[2])
    \/ \E t \in Threads : Acquire(t)
    \/ \E t \in Threads : Body(t)
    \/ \E t \in Threads : Exit(t)

\* Fair scheduling of the threads: a thread whose next step stays possible
\* takes it. threading.Lock gives no order among the threads that wait for
\* it, so a waiting thread is only sure to get the lock if the lock stays
\* free (weak fairness on the acquisition).
LockFairness ==
    \A t \in Threads :
        /\ WF_vars(Acquire(t))
        /\ WF_vars(Body(t))
        /\ WF_vars(Exit(t))

LockSpec == LockInit /\ [][LockNext]_vars /\ LockFairness

\* ------------------------------------------- dicts and lists as objects
\* A game state is a dict object whose "board" entry refers to a list
\* object; the repository and its callers hold references (addresses).
\* dicts[a].board is the address of the board of dict a.

\* The value of the dict at address a: its entries, the board by value.
Deref(ds, ls, a) == [ds[a] EXCEPT !.board = ls[ds[a].board]]

\* Mutant: no copy is made, the same list object is used.
deepcopy_same(ls, a) == [lists |-> ls, ref |-> a]

\* copy.deepcopy of the list at address a: a new object with equal content.
deepcopy(ls, a) == [lists |-> Append(ls, ls[a]), ref |-> Len(ls) + 1]

HeapInit ==
    /\ games = EmptyGames
    /\ \E m \in TtlMinutesInputs : ttl_seconds = InitTtlSeconds(m)
    /\ now = 0
    /\ ret = NoRet
    /\ fresh = EmptyGames
    /\ pc = [t \in Threads |-> "idle"]
    /\ upd = [t \in Threads |-> NoState]
    /\ move = [t \in Threads |-> {}]
    /\ okMoves = [k \in GameIds |-> 0]
    /\ usedIds = {}
    /\ commits = 0
    /\ LockIdle
    /\ HeapIdle
    /\ HttpIdle
    /\ RulesIdle
    /\ EvalIdle

\* (mode, ai_difficulty, first_player) of the start requests, and (row, col)
\* of the move requests: one outside the board, two cells of the top row.
HeapStartInputs == {<<"pvp", "easy", "X">>, <<"ai", "hard", "O">>}
HeapMoveInputs == {<<0, BoardSize - 1 + Margin>>, <<0, 0>>, <<0, 2>>}

HeapFrame == UNCHANGED <<games, ttl_seconds, upd, move, ret, okMoves,
                         repoVars, httpVars, rulesVars, evalVars>>

Handed(a) == [ref |-> a, seen |-> Deref(dicts, lists, a)]

\* time.time() moves on between critical sections.
HeapTick ==
    /\ now + TickSeconds <= MaxTicks * TickSeconds
    /\ now' = now + TickSeconds
    /\ UNCHANGED <<pc, usedIds, commits, heapVars>>
    /\ HeapFrame

\* start_game: create_new_game builds a board and a dict; create_game binds
\* the key to that dict and returns it.
HeapStart(t, game_id, mode, ai_difficulty, first_player) ==
    /\ pc[t] = "idle"
    /\ game_id \notin usedIds
    /\ Len(dicts) < MaxObjects
    /\ LET b == Len(lists) + 1
           a == Len(dicts) + 1
           game == [create_new_game(game_id, first_player, mode,
                                    IF mode = "ai" THEN ai_difficulty ELSE None)
                       EXCEPT !.board = b]
           r == create_game(bound, [game EXCEPT !.board = _empty_board], now)
       IN  /\ lists' = Append(lists, _empty_board)
           /\ dicts' = Append(dicts, game)
           /\ IF r.exc = None
              THEN /\ bound' = [k \in DOMAIN r.games |->
                                  IF k = Str(game_id) THEN _StoredGame(a, now)
                                  ELSE bound[k]]
                   /\ held' = held \cup
                                {[ref |-> a,
                                  seen |-> [game EXCEPT !.board = _empty_board]]}
                   /\ commits' = commits + 1
              ELSE UNCHANGED <<bound, held, commits>>
    /\ usedIds' = usedIds \cup {game_id}
    /\ UNCHANGED <<now, pc, local>>
    /\ HeapFrame

\* get_game returns stored.state, the dict the key is bound to; an expired
\* entry is deleted and None is returned.
HeapGet(t, game_id) ==
    /\ pc[t] = "idle"
    /\ LET r == get_game(bound, game_id, now, ttl_seconds)
       IN  /\ bound' = r.games
           /\ held' = IF r.found THEN held \cup {Handed(r.state)} ELSE held
    /\ UNCHANGED <<now, pc, dicts, lists, local, usedIds, commits>>
    /\ HeapFrame

\* list_games deletes the expired entries and returns
\* [stored.state for ...], the dicts the keys of the page are bound to.
HeapList(t, offset, limit) ==
    /\ pc[t] = "idle"
    /\ LET r == list_games(bound, offset, limit, now, ttl_seconds)
       IN  /\ bound' = r.games
           /\ held' = held \cup {Handed(r.page[i]) : i \in 1..Len(r.page)}
    /\ UNCHANGED <<now, pc, dicts, lists, local, usedIds, commits>>
    /\ HeapFrame

\* apply_move on the dict at address a, called by thread t: the board is
\* deep-copied, the mark is put into the copy, and a new dict is built from
\* the old entries and the new board. The thread keeps the new dict.
HeapApply(t, op, a, row, col) ==
    LET old == Deref(dicts, lists, a)
        c == deepcopy(lists, dicts[a].board)
        marked == [c.lists EXCEPT ![c.ref][row][col] = old.next_player]
        status == _derive_status_from_winner(check_winner(marked[c.ref]))
        new_state == [dicts[a] EXCEPT
                         !.board = c.ref,
                         !.next_player = IF status = "in_progress"
                                         THEN _next_player_after(old.next_player)
                                         ELSE None,
                         !.status = status,
                         !.moves = old.moves + 1]
    IN  /\ lists' = marked
        /\ dicts' = Append(dicts, new_state)
        /\ local' = [local EXCEPT ![t] = Len(dicts) + 1]
        /\ pc' = [pc EXCEPT ![t] = op]

\* make_move up to its update_game: get_game, then apply_move.
HeapMakeMoveGet(t, game_id, row, col) ==
    /\ pc[t] = "idle"
    /\ LET r == get_game(bound, game_id, now, ttl_seconds)
       IN  /\ bound' = r.games
           /\ IF ~r.found
              THEN UNCHANGED <<dicts, lists, local, pc>>
              ELSE IF apply_move_error(Deref(dicts, lists, r.state), row, col)
                         # None
              THEN UNCHANGED <<dicts, lists, local, pc>>
              ELSE /\ Len(dicts) < MaxObjects
                   /\ HeapApply(t, "make_move", r.state, row, col)
    /\ UNCHANGED <<now, held, usedIds, commits>>
    /\ HeapFrame

\* ai_move up to its update_game: get_game, ai_pick_move, apply_move.
HeapAiMoveGet(t, game_id) ==
    /\ pc[t] = "idle"
    /\ LET r == get_game(bound, game_id, now, ttl_seconds)
       IN  /\ bound' = r.games
           /\ IF ~r.found
              THEN UNCHANGED <<dicts, lists, local, pc>>
              ELSE LET g == Deref(dicts, lists, r.state)
                   IN  IF g.mode # "ai" \/ ai_pick_move(g, g.ai_difficulty) = {}
                       THEN UNCHANGED <<dicts, lists, local, pc>>
                       ELSE \E mv \in ai_pick_move(g, g.ai_difficulty) :
                            IF apply_move_error(g, mv[1], mv[2]) # None
                            THEN UNCHANGED <<dicts, lists, local, pc>>
                            ELSE /\ Len(dicts) < MaxObjects
                                 /\ HeapApply(t, "ai_move", r.state,
                                              mv[1], mv[2])
    /\ UNCHANGED <<now, held, usedIds, commits>>
    /\ HeapFrame

\* The update_game that ends make_move and ai_move: the key is bound to the
\* dict apply_move returned, unless the entry is gone or expired.
HeapMoveUpdate(t) ==
    /\ pc[t] \in {"make_move", "ai_move"}
    /\ LET a == local[t]
           r == update_game(bound, Deref(dicts, lists, a), now, ttl_seconds)
       IN  IF r.exc = None
           THEN /\ commits' = commits + 1
                /\ bound' = [bound EXCEPT ![Str(dicts[a].id)].state = a]
           ELSE UNCHANGED <<bound, commits>>
    /\ pc' = [pc EXCEPT ![t] = "idle"]
    /\ local' = [local EXCEPT ![t] = 0]
    /\ UNCHANGED <<now, dicts, lists, held, usedIds>>
    /\ HeapFrame

HeapNext ==
    \/ HeapTick
    \/ \E t \in Threads, id \in GameIds, in \in HeapStartInputs :
          HeapStart(t, id, in[1], in[2], in[3])
    \/ \E t \in Threads, id \in GameIds : HeapGet(t, id)
    \/ \E t \in Threads : HeapList(t, 0, MaxLimit)
    \/ \E t \in Threads, id \in GameIds, rc \in HeapMoveInputs :
          HeapMakeMoveGet(t, id, rc[1], rc[2])
    \/ \E t \in Threads, id \in GameIds : HeapAiMoveGet(t, id)
    \/ \E t \in Threads : HeapMoveUpdate(t)

HeapSpec == HeapInit /\ [][HeapNext]_vars

\* ------------------------------------------------------- the HTTP handlers
\* Each handler of api/routers/games.py receives its repository from
\* repository_dependency, that is from get_repo, which calls
\* config.get_repository(): a new InMemoryRepository on every call.
\* repos[i] is the _games dict of the repository of request i as the handler
\* left it.
get_repository == EmptyGames

HttpIds == {"g1", "g2"}
HttpMoveInputs == {<<0, 0>>, <<0, BoardSize - 1 + Margin>>}

HttpInit ==
    /\ games = EmptyGames
    /\ \E m \in TtlMinutesInputs : ttl_seconds = InitTtlSeconds(m)
    /\ now = 0
    /\ ret = NoRet
    /\ fresh = EmptyGames
    /\ pc = [t \in Threads |-> "idle"]
    /\ upd = [t \in Threads |-> NoState]
    /\ move = [t \in Threads |-> {}]
    /\ okMoves = [k \in GameIds |-> 0]
    /\ usedIds = {}
    /\ commits = 0
    /\ LockIdle
    /\ HeapIdle
    /\ HttpIdle
    /\ RulesIdle
    /\ EvalIdle

HttpFrame == UNCHANGED <<games, ttl_seconds, now, pc, upd, move, okMoves, commits,
                         repoVars, heapVars, rulesVars, evalVars>>

\* A response with a body, and an HTTPException(status_code, detail).
Response(op, id, status, mv, game) ==
    [op |-> op, id |-> id, status |-> status, detail |-> None,
     move |-> mv, body |-> {to_game_state_response(game)}]
not_found(op, id) ==
    [op |-> op, id |-> id, status |-> 404, detail |-> "Game with id not found",
     move |-> {}, body |-> {}]
bad_request(op, id, detail) ==
    [op |-> op, id |-> id, status |-> 400, detail |-> detail,
     move |-> {}, body |-> {}]

\* POST /games
HttpCreateGame(game_id, mode, ai_difficulty, first_player) ==
    /\ Len(repos) < MaxRequests
    /\ game_id \notin usedIds
    /\ LET repo == get_repository
           game == create_new_game(game_id, first_player, mode,
                                   IF mode = "ai" THEN ai_difficulty ELSE None)
           r == create_game(repo, game, now)
       IN  /\ repos' = Append(repos, r.games)
           /\ ret' = Response("create_game", game_id, 201, {}, r.state)
    /\ usedIds' = usedIds \cup {game_id}
    /\ HttpFrame

\* GET /games?offset=&limit=
HttpListGames(offset, limit) ==
    /\ Len(repos) < MaxRequests
    /\ LET repo == get_repository
           r == list_games(repo, offset, limit, now, ttl_seconds)
           items == [i \in 1..Len(r.page) |-> to_game_state_response(r.page[i])]
       IN  /\ repos' = Append(repos, r.games)
           /\ ret' = [op |-> "list_games", id |-> None, status |-> 200,
                      detail |-> None, items |-> items, offset |-> offset,
                      limit |-> limit, count |-> Len(items)]
    /\ UNCHANGED usedIds
    /\ HttpFrame

\* GET /games/{game_id}
HttpGetGame(game_id) ==
    /\ Len(repos) < MaxRequests
    /\ LET repo == get_repository
           r == get_game(repo, game_id, now, ttl_seconds)
       IN  /\ repos' = Append(repos, r.games)
           /\ ret' = IF ~r.found THEN not_found("get_game", game_id)
                     ELSE Response("get_game", game_id, 200, {}, r.state)
    /\ UNCHANGED usedIds
    /\ HttpFrame

\* POST /games/{game_id}/moves
HttpPostMove(game_id, row, col) ==
    /\ Len(repos) < MaxRequests
    /\ LET repo == get_repository
           r == get_game(repo, game_id, now, ttl_seconds)
       IN  IF ~r.found
           THEN /\ repos' = Append(repos, r.games)
                /\ ret' = not_found("post_move", game_id)
           ELSE IF apply_move_error(r.state, row, col) # None
           THEN /\ repos' = Append(repos, r.games)
                /\ ret' = bad_request("post_move", game_id,
                                      apply_move_error(r.state, row, col))
           ELSE LET u == update_game(r.games, apply_move(r.state, row, col),
                                     now, ttl_seconds)
                IN  /\ repos' = Append(repos, u.games)
                    /\ ret' = Response("post_move", game_id, 200, {}, u.state)
    /\ UNCHANGED usedIds
    /\ HttpFrame

\* POST /games/{game_id}/ai-move
HttpPostAiMove(game_id) ==
    /\ Len(repos) < MaxRequests
    /\ LET repo == get_repository
           r == get_game(repo, game_id, now, ttl_seconds)
       IN  IF ~r.found
           THEN /\ repos' = Append(repos, r.games)
                /\ ret' = not_found("post_ai_move", game_id)
           ELSE IF r.state.mode # "ai"
                   \/ ai_pick_move(r.state, r.state.ai_difficulty) = {}
           THEN /\ repos' = Append(repos, r.games)
                /\ ret' = Response("post_ai_move", game_id, 200, {}, r.state)
           ELSE \E mv \in ai_pick_move(r.state, r.state.ai_difficulty) :
                IF apply_move_error(r.state, mv[1], mv[2]) # None
                THEN /\ repos' = Append(repos, r.games)
                     /\ ret' = bad_request("post_ai_move", game_id,
                                           apply_move_error(r.state, mv[1], mv[2]))
                ELSE LET u == update_game(r.games,
                                          apply_move(r.state, mv[1], mv[2]),
                                          now, ttl_seconds)
                     IN  /\ repos' = Append(repos, u.games)
                         /\ ret' = Response("post_ai_move", game_id, 200,
                                            {mv}, u.state)
    /\ UNCHANGED usedIds
    /\ HttpFrame

HttpNext ==
    \/ \E id \in HttpIds, m \in Modes, d \in Difficulties, fp \in Players :
          HttpCreateGame(id, m, d, fp)
    \/ \E offset \in 0..MaxOffset, limit \in 1..MaxLimit :
          HttpListGames(offset, limit)
    \/ \E id \in HttpIds : HttpGetGame(id)
    \/ \E id \in HttpIds, rc \in HttpMoveInputs : HttpPostMove(id, rc[1], rc[2])
    \/ \E id \in HttpIds : HttpPostAiMove(id)

HttpSpec == HttpInit /\ [][HttpNext]_vars

\* ------------------------------------------------------------------ claims
Count(b, mark) == Cardinality({rc \in Idx \X Idx : b[rc[1]][rc[2]] = mark})
Other(mark) == IF mark = "X" THEN "O" ELSE "X"

\* The 8 winning lines as sets of coordinates: 3 rows, 3 columns, 2 diagonals.
WinLines ==
    {{<<r, c>> : c \in Idx} : r \in Idx} \cup
    {{<<r, c>> : r \in Idx} : c \in Idx} \cup
    {{<<i, i>> : i \in Idx}, {<<i, BoardSize - 1 - i>> : i \in Idx}}
FullLinesOf(b, mark) == {l \in WinLines : \A rc \in l : b[rc[1]][rc[2]] = mark}
HasLine(b, mark) == FullLinesOf(b, mark) # {}
Reverse(s) == [i \in 1..Len(s) |-> s[Len(s) + 1 - i]]

\* C1: no update is lost when move calls on one id run concurrently: the
\* stored game holds one mark more for every make_move and ai_move call on it
\* that returned a move (its moves is that of the record created plus the
\* number of those calls).
C1_NoLostUpdate ==
    \A id \in DOMAIN games : games[id].state.moves = okMoves[id]

\* C2: once the state stored for an id has a status other than in_progress,
\* a step either leaves that state as it is or removes the entry.
C2_FinishedNeverChanges ==
    [][\A id \in DOMAIN games :
          games[id].state.status # "in_progress" =>
              \/ id \notin DOMAIN games'
              \/ games'[id].state = games[id].state]_vars

\* C3: a step in which a call ends with one of these errors leaves the
\* repository's dict as it was: apply_move rejecting the move (game not in
\* progress, out of bounds, cell occupied), update_game rejecting the update,
\* create_game rejecting the record.
C3_Failures ==
    {"Game is not in progress.", "Move out of bounds.", "Cell already occupied.",
     "No next player assigned.", "Game with id not found.",
     "Game with id already exists.", "Game must have an 'id' field."}
C3_FailureLeavesStore ==
    [][(ret'.exc # None /\ ret'.msg \in C3_Failures) => games' = games]_vars
\* update_game rejected a move on an expired entry, which is still in the dict.
C3_Witness ==
    /\ ret.op \in {"make_move", "ai_move"}
    /\ ret.exc = "KeyError"
    /\ ret.msg = "Game with id not found."
    /\ ret.id \in DOMAIN games
    /\ _is_expired(games[ret.id], now, ttl_seconds)

\* C4: in every state reached from a new game by successful apply_move calls,
\* next_player is None when status is not in_progress, and is X or O when it is.
C4_NextPlayerAbsentIffEnded ==
    /\ state.status # "in_progress" => state.next_player = None
    /\ state.status = "in_progress" => state.next_player \in Players
C4_Witness ==
    /\ last.kind = "ok"
    /\ state.status \in {"x_won", "o_won", "draw"}
    /\ state.next_player = None

\* C5: moves equals the number of non-empty cells, and equals the number of
\* apply_move calls that succeeded since the new game.
C5_MovesCountsMarks ==
    /\ state.moves = Count(state.board, "X") + Count(state.board, "O")
    /\ state.moves = nApplied
C5_Witness ==
    /\ last.kind = "ok"
    /\ nApplied = BoardSize * BoardSize
    /\ state.moves = BoardSize * BoardSize

\* C6: the first player has as many marks on the board as the other player,
\* or exactly one more.
C6_MarkBalance ==
    LET d == Count(state.board, state.first_player)
             - Count(state.board, Other(state.first_player))
    IN  d \in {0, 1}
C6_Witness ==
    /\ last.kind = "ok"
    /\ state.moves >= 3
    /\ Count(state.board, state.first_player)
         = Count(state.board, Other(state.first_player)) + 1

\* C7: right after a successful apply_move, next_player is the mark other than
\* the one just placed, unless the move ended the game, and then it is None.
C7_Alternation ==
    last.kind = "ok" =>
        /\ state.board[last.row][last.col] = last.player
        /\ IF state.status = "in_progress"
           THEN state.next_player = Other(last.player)
           ELSE state.next_player = None
C7_Witness ==
    /\ last.kind = "ok"
    /\ last.player = "O"
    /\ state.status = "in_progress"
    /\ state.next_player = "X"

\* C8 as stated: after a successful apply_move(s, row, col), apply_move on the
\* result with the same row and col raises "Cell already occupied.".
C8_Original ==
    last.kind = "ok" =>
        apply_move_error(state, last.row, last.col) = "Cell already occupied."
\* C8 amended: the second application always raises; it raises "Cell already
\* occupied." when the first left the game in progress, and "Game is not in
\* progress." when the first ended the game.
C8_DoubleApplicationRaises ==
    last.kind = "ok" =>
        apply_move_error(state, last.row, last.col) =
            IF state.status = "in_progress"
            THEN "Cell already occupied."
            ELSE "Game is not in progress."
C8_Witness ==
    /\ last.kind = "ok"
    /\ state.status # "in_progress"
    /\ state.board[last.row][last.col] # ""
    /\ apply_move_error(state, last.row, last.col) # None

\* C9: for every 3x3 board, check_winner returns a mark that fills one of the
\* 8 lines when some mark does, else "draw" when no cell is empty, else None;
\* so a full board with a complete line yields a mark, never "draw".
C9_EvaluateOutcome ==
    outcome # "pending" =>
        LET won  == \E m \in Players : HasLine(board, m)
            full == Count(board, "") = 0
        IN  /\ outcome \in Players \cup {"draw", None}
            /\ won => outcome \in Players /\ HasLine(board, outcome)
            /\ ~won /\ full => outcome = "draw"
            /\ ~won /\ ~full => outcome = None
C9_Witness ==
    /\ outcome \in Players
    /\ Count(board, "") = 0
    /\ FullLinesOf(board, outcome) = {{<<i, BoardSize - 1 - i>> : i \in Idx}}

\* C10: on every board reached by play at most one mark has a complete line,
\* so check_winner over the lines in the opposite order returns the same.
C10_OneWinner ==
    /\ ~(HasLine(state.board, "X") /\ HasLine(state.board, "O"))
    /\ WinnerIn(Reverse(_lines(state.board)), state.board) = check_winner(state.board)
C10_Witness ==
    /\ last.kind = "ok"
    /\ \E m \in Players : Cardinality(FullLinesOf(state.board, m)) = 2

\* Age of something created at created_at is within the configured TTL (or
\* no TTL is configured).
WithinTtl(created_at) ==
    \A s \in ttl_seconds : now - created_at <= s

\* C11: a get_game for a key whose last successful create_game has not been
\* followed by a successful update_game for that key, and whose age is within
\* the TTL, returns the record that create_game was given, whatever calls on
\* other keys came in between.
C11_RoundTrip ==
    [][\A k \in RepoKeys :
          (/\ ret'.op = "get_game" /\ now' = now /\ ret'.id = k
           /\ k \in DOMAIN fresh /\ WithinTtl(fresh[k].created_at))
          => ret'.value = {fresh[k].state}]_vars

\* C11 case: a get_game returned the record as created, at a later time than
\* its creation, while another key holds an updated record.
C11_Witness ==
    /\ ret.op = "get_game"
    /\ ret.id \in DOMAIN fresh
    /\ ret.value = {fresh[ret.id].state}
    /\ now > fresh[ret.id].created_at
    /\ \E k \in DOMAIN games : k # ret.id /\ k \notin DOMAIN fresh

\* The states of the entries of gs whose age is within the TTL.
LiveStates(gs) ==
    {gs[k].state : k \in {j \in DOMAIN gs : WithinTtl(gs[j].created_at)}}

\* C12: a get_game for a stored key returns its record when the entry's age
\* is within the TTL (always, when no TTL is configured) and None when it is
\* over; a list_games result holds only records of entries within the TTL;
\* an update_game for an entry over the TTL raises the not-found KeyError;
\* and no step removes an entry whose age is within the TTL.
C12_Ttl ==
    [][now' = now =>
        /\ \A k \in DOMAIN games :
              /\ (ret'.op = "get_game" /\ ret'.id = k) =>
                    ret'.value = IF WithinTtl(games[k].created_at)
                                    THEN {games[k].state} ELSE {}
              /\ (/\ ret'.op = "update_game" /\ Str(ret'.id) = k
                  /\ ~WithinTtl(games[k].created_at)) =>
                    /\ ret'.exc = "KeyError"
                    /\ ret'.msg = "Game with id not found."
              /\ WithinTtl(games[k].created_at) => k \in DOMAIN games'
        /\ ret'.op = "list_games" =>
              \A i \in 1..Len(ret'.value) : ret'.value[i] \in LiveStates(games)
      ]_vars

\* C12 case: a list_games returned a record whose age is exactly the TTL,
\* and a record created earlier, now over the TTL, is gone from the store.
C12_Witness ==
    /\ ret.op = "list_games"
    /\ \E k \in DOMAIN games, s \in ttl_seconds :
          /\ now - games[k].created_at = s
          /\ \E i \in 1..Len(ret.value) : ret.value[i] = games[k].state
    /\ \E k \in DOMAIN fresh :
          k \notin DOMAIN games /\ ~WithinTtl(fresh[k].created_at)

\* C13: an update_game that succeeds replaces the state stored under the
\* record's key by the record, keeps that entry's created_at, leaves every
\* other entry and the list order as they were; an update_game for a
\* non-empty key with no entry, or with an entry over the TTL, raises the
\* not-found KeyError.
C13_UpdateKeepsCreatedAt ==
    [][(ret'.op = "update_game" /\ now' = now) =>
        LET k == Str(ret'.id)
        IN  /\ ret'.exc = None =>
                  /\ k \in DOMAIN games
                  /\ DOMAIN games' = DOMAIN games
                  /\ games'[k].state \in ret'.value
                  /\ games'[k].created_at = games[k].created_at
                  /\ \A j \in DOMAIN games : j # k => games'[j] = games[j]
                  /\ SortedItems(games') = SortedItems(games)
            /\ (/\ k # ""
                /\ \/ k \notin DOMAIN games
                   \/ ~WithinTtl(games[k].created_at)) =>
                  /\ ret'.exc = "KeyError"
                  /\ ret'.msg = "Game with id not found."
      ]_vars

\* C13 case: an update_game succeeded at a later time than the entry's
\* creation, on an entry that another entry, created later, follows in the
\* list order.
C13_Witness ==
    /\ ret.op = "update_game"
    /\ ret.exc = None
    /\ Str(ret.id) \in DOMAIN games
    /\ games[Str(ret.id)].state \in ret.value
    /\ \E j \in DOMAIN games :
          /\ games[Str(ret.id)].created_at < games[j].created_at
          /\ games[j].created_at < now

\* C14: a create_game for a non-empty key that the dict holds raises the
\* already-exists ValueError and leaves the dict as it was; for a key the
\* dict does not hold it succeeds and stores the record with the current
\* time. So of the create_game calls for one key made while its entry stays,
\* exactly the first succeeds.
C14_DuplicateCreate ==
    [][(ret'.op = "create_game" /\ now' = now /\ Str(ret'.id) # "") =>
        LET k == Str(ret'.id)
        IN  IF k \in DOMAIN games
            THEN /\ ret'.exc = "ValueError"
                 /\ ret'.msg = "Game with id already exists."
                 /\ games' = games
            ELSE /\ ret'.exc = None
                 /\ DOMAIN games' = DOMAIN games \cup {k}
                 /\ games'[k].state \in ret'.value
                 /\ games'[k].created_at = now
                 /\ \A j \in DOMAIN games : games'[j] = games[j]
      ]_vars

\* C14 case: a create_game was rejected as a duplicate at a later time than
\* the creation of the entry that holds the key.
C14_Witness ==
    /\ ret.op = "create_game"
    /\ ret.exc = "ValueError"
    /\ ret.msg = "Game with id already exists."
    /\ Str(ret.id) \in DOMAIN games
    /\ games[Str(ret.id)].created_at < now

\* C15: a create_game or update_game given a record whose id is absent
\* (None) or empty raises the must-have-an-id ValueError and leaves the dict
\* as it was.
C15_MissingIdRejected ==
    [][(/\ ret'.op \in {"create_game", "update_game"} /\ now' = now
        /\ ret'.id \in {None, ""}) =>
          /\ ret'.exc = "ValueError"
          /\ ret'.msg = "Game must have an 'id' field."
          /\ games' = games
      ]_vars

\* C16: a list_games(offset, limit) returns at most limit records; and a
\* list_games(k, m) that directly follows a list_games(0, k), with no entry
\* added or removed in between or by it, returns the records that, appended
\* to those the first call returned, give the result of list_games(0, k + m).
C16_Pagination ==
    [][(ret'.op = "list_games" /\ now' = now) =>
        /\ Len(ret'.value) <= ret'.limit
        /\ (/\ ret.op = "list_games" /\ ret.offset = 0
            /\ ret'.offset = ret.limit /\ games' = games) =>
              ret.value \o ret'.value =
                  list_games(games', 0, ret.limit + ret'.limit,
                             now, ttl_seconds).page
      ]_vars

\* C16 case: a page of one record taken from the middle of three entries.
C16_Witness ==
    /\ ret.op = "list_games"
    /\ ret.offset = 1
    /\ ret.limit = 1
    /\ Len(ret.value) = 1
    /\ Cardinality(DOMAIN games) = 3

\* Entry a of gs is before entry b in ascending (created_at, id).
Precedes(gs, a, b) ==
    \/ gs[a].created_at < gs[b].created_at
    \/ gs[a].created_at = gs[b].created_at /\ StrRank(a) < StrRank(b)

\* C17: a list_games(offset, limit) leaves in the dict the entries within
\* the TTL and returns, of those entries in ascending (created_at, id), the
\* ones at positions offset+1 .. offset+limit: the i-th record returned is
\* the state of the entry that exactly offset+i-1 entries precede. An
\* update_game changes the order of no two entries.
C17_ListOrder ==
    [][now' = now =>
        /\ ret'.op = "list_games" =>
              LET n == Cardinality(DOMAIN games')
                  rest == IF n > ret'.offset THEN n - ret'.offset ELSE 0
              IN  /\ DOMAIN games' =
                        {k \in DOMAIN games : WithinTtl(games[k].created_at)}
                  /\ Len(ret'.value) =
                        (IF rest < ret'.limit THEN rest ELSE ret'.limit)
                  /\ \A i \in 1..Len(ret'.value) :
                        LET k == Str(ret'.value[i].id)
                        IN  /\ k \in DOMAIN games'
                            /\ games'[k].state = ret'.value[i]
                            /\ Cardinality({j \in DOMAIN games' :
                                                Precedes(games', j, k)})
                                  = ret'.offset + i - 1
        /\ ret'.op = "update_game" =>
              /\ DOMAIN games' = DOMAIN games
              /\ \A a \in DOMAIN games, b \in DOMAIN games :
                    Precedes(games', a, b) <=> Precedes(games, a, b)
      ]_vars

\* C17 case: a page of two records where creation time decides against the
\* identifier order (the first record has the greater key), and the second
\* record precedes a third entry of the same creation time by its key.
C17_Witness ==
    /\ ret.op = "list_games"
    /\ ret.offset = 0
    /\ Len(ret.value) = 2
    /\ LET k1 == Str(ret.value[1].id)
           k2 == Str(ret.value[2].id)
       IN  /\ StrRank(k2) < StrRank(k1)
           /\ {k1, k2} \subseteq DOMAIN games
           /\ games[k1].created_at < games[k2].created_at
           /\ \E j \in DOMAIN games :
                 /\ games[j].created_at = games[k2].created_at
                 /\ StrRank(k2) < StrRank(j)

\* The response resp shows the game record g: same fields, the id as a str,
\* an empty cell as None.
Shows(resp, g) ==
    /\ resp.id = Str(g.id)
    /\ \A r \in Idx, c \in Idx :
          resp.board[r][c] = (IF g.board[r][c] = "" THEN None ELSE g.board[r][c])
    /\ resp.next_player = g.next_player
    /\ resp.status = g.status
    /\ resp.mode = g.mode
    /\ resp.ai_difficulty = g.ai_difficulty
    /\ resp.first_player = g.first_player
    /\ resp.moves = g.moves

\* C18: an ai_move call for an id whose stored game (within the TTL) has
\* mode pvp, or has mode ai and is not in progress, returns without going on
\* to update_game: it raises nothing, the move it returns is None, the state
\* it returns shows the stored game, and the repository's dict is unchanged.
C18_AiMoveNoop ==
    [][\A id \in DOMAIN games :
          (/\ ret'.op = "ai_move" /\ ret'.id = id
           /\ now' = now /\ pc' = pc
           /\ WithinTtl(games[id].created_at)
           /\ \/ games[id].state.mode = "pvp"
              \/ games[id].state.status # "in_progress") =>
            /\ ret'.exc = None
            /\ ret'.move = {}
            /\ Shows(ret'.state, games[id].state)
            /\ games' = games
      ]_vars

\* C18 case: ai_move returned no move for a stored game of mode ai that has
\* ended.
C18_Witness ==
    /\ ret.op = "ai_move"
    /\ ret.exc = None
    /\ ret.move = {}
    /\ ret.id \in DOMAIN games
    /\ games[ret.id].state.mode = "ai"
    /\ games[ret.id].state.status # "in_progress"
    /\ Shows(ret.state, games[ret.id].state)

EmptyCells(b) == {rc \in Idx \X Idx : b[rc[1]][rc[2]] = ""}
\* The state is one ai_pick_move gives a move for.
Pickable(g) ==
    g.status = "in_progress" /\ g.mode = "ai" /\ EmptyCells(g.board) # {}

\* C19: ai_pick_move returns a move exactly when the state is in progress,
\* of mode ai and has an empty cell; the move returned is an empty cell of
\* the state's board and apply_move accepts it on that state; and for each
\* difficulty the moves it can return are all the empty cells.
C19_PickMove ==
    /\ last.kind = "pick" =>
          /\ last.move # {} <=> Pickable(state)
          /\ \A mv \in last.move :
                /\ mv \in EmptyCells(state.board)
                /\ apply_move_error(state, mv[1], mv[2]) = None
    /\ \A d \in DifficultyInputs :
          ai_pick_move(state, d) =
              (IF Pickable(state) THEN EmptyCells(state.board) ELSE {})

\* C19 case: with difficulty hard, a move was picked on a board that has
\* marks of both players.
C19_Witness ==
    /\ last.kind = "pick"
    /\ last.difficulty = "hard"
    /\ last.move # {}
    /\ state.moves >= 3

\* C20: create_new_game(first_player, mode, ai_difficulty) gives a state
\* with every cell empty, status in_progress, moves 0, next_player and
\* first_player the given first player, the given mode, and ai_difficulty the
\* given one when the mode is ai and None when it is pvp; a game no move was
\* applied to is such a state.
C20_NewGame ==
    /\ \A fp \in Players, m \in Modes, d \in DifficultyInputs :
          LET g == create_new_game("g1", fp, m, d)
          IN  /\ \A r \in Idx, c \in Idx : g.board[r][c] = ""
              /\ g.status = "in_progress"
              /\ g.moves = 0
              /\ g.next_player = fp
              /\ g.first_player = fp
              /\ g.mode = m
              /\ g.ai_difficulty = (IF m = "ai" THEN d ELSE None)
    /\ last.kind = "new" =>
          /\ EmptyCells(state.board) = Idx \X Idx
          /\ state.status = "in_progress"
          /\ state.moves = 0
          /\ state.next_player = state.first_player
          /\ state.mode = "pvp" => state.ai_difficulty = None

\* C20 case: a new game of mode ai, difficulty hard, started by O.
C20_Witness ==
    /\ last.kind = "new"
    /\ state.mode = "ai"
    /\ state.ai_difficulty = "hard"
    /\ state.next_player = "O"
    /\ state.moves = 0

\* C21 as stated: under fair scheduling every repository call a thread has
\* entered comes to its end (the thread is out of the method again, with a
\* value returned or an exception raised), and the lock is held exactly
\* while a thread is inside a with block.
C21_Original ==
    /\ \A t \in Threads : (call[t].at # "idle") ~> (call[t].at = "idle")
    /\ [](\A t \in Threads : (t \in lock) <=> (call[t].at \in {"body", "exit"}))
    /\ [](Cardinality(lock) <= 1)

\* C21, amended: under fair scheduling no call holds the lock for ever and
\* the repository never deadlocks. Every call that has the lock comes to its
\* end, by a return or by a raise, and the lock is free again after it;
\* whenever a thread waits for the lock, some thread gets it; the lock is
\* held exactly while a thread is inside a with block, by one thread at most.
\* (That the waiting thread itself gets the lock is not claimed.)
C21_NoCallKeepsTheLock ==
    /\ \A t \in Threads :
          (call[t].at \in {"body", "exit"}) ~> (call[t].at = "idle" /\ t \notin lock)
    /\ (lock # {}) ~> (lock = {})
    /\ (\E t \in Threads : call[t].at = "acquire") ~> (lock # {})
    /\ [](\A t \in Threads : (t \in lock) <=> (call[t].at \in {"body", "exit"}))
    /\ [](Cardinality(lock) <= 1)

\* C21 case: a thread waits for the lock while the thread that holds it is
\* about to leave the with block by raising.
C21_Witness ==
    \E t \in Threads, u \in Threads :
        /\ call[t].at = "acquire"
        /\ call[u].at = "exit"
        /\ call[u].out.exc = "KeyError"
        /\ lock = {u}

\* The first of the four failure conditions that holds for (g, row, col), in
\* the order status, bounds, mover, cell; None when none holds.
FirstFailure(g, row, col) ==
    IF g.status # "in_progress" THEN "Game is not in progress."
    ELSE IF row \notin Idx \/ col \notin Idx THEN "Move out of bounds."
    ELSE IF g.next_player = None THEN "No next player assigned."
    ELSE IF g.board[row][col] # "" THEN "Cell already occupied."
    ELSE None

\* C22: for every state reached by play, and for that state with its
\* next_player removed, apply_move on any coordinates (negative ones and ones
\* past the board included) raises the first failure that holds in the order
\* not-in-progress, out-of-bounds, no-next-player, cell-occupied; and a call
\* that raises leaves the state as it was.
C22_FailureOrder ==
    /\ [](\A row \in CoordInputs, col \in CoordInputs :
            /\ apply_move_error(state, row, col) = FirstFailure(state, row, col)
            /\ LET g == [state EXCEPT !.next_player = None]
               IN  apply_move_error(g, row, col) = FirstFailure(g, row, col))
    /\ [][last'.kind \notin {"ok", "new"} =>
            /\ state' = state
            /\ \E row \in CoordInputs, col \in CoordInputs :
                  last'.kind = FirstFailure(state, row, col)]_vars

\* C22 case: a move outside the board was rejected on a game in progress
\* that has marks on its board.
C22_Witness ==
    /\ last.kind = "Move out of bounds."
    /\ state.status = "in_progress"
    /\ state.moves >= 2

\* C23: an apply_move(state, row, col) that succeeds changes the cell
\* (row, col) from empty to the mark that was next_player, and leaves every
\* other cell and the fields id, mode, ai_difficulty and first_player as
\* they were.
C23_OneCellChanges ==
    [][last'.kind = "ok" =>
        /\ state.board[last'.row][last'.col] = ""
        /\ last'.player = state.next_player
        /\ last'.player \in Players
        /\ state'.board[last'.row][last'.col] = last'.player
        /\ \A r \in Idx, c \in Idx :
              <<r, c>> # <<last'.row, last'.col>> =>
                  state'.board[r][c] = state.board[r][c]
        /\ state'.id = state.id
        /\ state'.mode = state.mode
        /\ state'.ai_difficulty = state.ai_difficulty
        /\ state'.first_player = state.first_player
      ]_vars

\* C23 case: a move was applied to a game of mode ai and difficulty hard
\* whose board had marks already.
C23_Witness ==
    /\ last.kind = "ok"
    /\ state.mode = "ai"
    /\ state.ai_difficulty = "hard"
    /\ state.moves >= 3
    /\ state.board[last.row][last.col] = last.player

\* C24: every dict a caller was handed by create_game, get_game or
\* list_games still has the value it had when it was handed over, whatever
\* make_move and ai_move calls came after.
C24_HandedStatesKeepValue ==
    \A h \in held : Deref(dicts, lists, h.ref) = h.seen

\* C24 case: a caller holds the dict of the new game while the key is bound
\* to a dict two moves on.
C24_Witness ==
    \E h \in held, k \in DOMAIN bound :
        /\ h.seen.moves = 0
        /\ h.ref # bound[k].state
        /\ Deref(dicts, lists, bound[k].state).moves = 2
        /\ Deref(dicts, lists, h.ref).id = k

\* The status a board calls for, read off the board itself: a line of three
\* equal marks decides for that mark, a full board without one is a draw.
StatusOfBoard(b) ==
    IF HasLine(b, "X") /\ ~HasLine(b, "O") THEN "x_won"
    ELSE IF HasLine(b, "O") /\ ~HasLine(b, "X") THEN "o_won"
    ELSE IF ~HasLine(b, "X") /\ ~HasLine(b, "O") /\ Count(b, "") = 0 THEN "draw"
    ELSE IF ~HasLine(b, "X") /\ ~HasLine(b, "O") THEN "in_progress"
    ELSE "both"

\* C25: in every record the store holds, whatever way concurrent start_game,
\* make_move and ai_move calls interleave, the status agrees with the board:
\* x_won or o_won exactly when the board has a line of that mark, draw exactly
\* when it is full without a line, in_progress exactly when it is neither.
C25_StatusAgreesWithBoard ==
    \A id \in DOMAIN games :
        games[id].state.status = StatusOfBoard(games[id].state.board)

\* C25 case: the store holds a decided game written by a move call while the
\* other thread is between its get_game and its update_game on the same id.
C25_Witness ==
    \E id \in DOMAIN games, t \in Threads :
        /\ games[id].state.status \in {"x_won", "o_won", "draw"}
        /\ okMoves[id] >= 1
        /\ pc[t] \in {"make_move", "ai_move"}
        /\ Str(upd[t].id) = id

\* C26: every game ends. From a new game at most 9 apply_move calls succeed,
\* a state with moves = 9 is not in_progress, every in_progress state has a
\* cell for which apply_move succeeds, and a game whose caller keeps applying
\* legal moves reaches the status x_won, o_won or draw.
C26_GameEnds ==
    /\ [](nApplied <= BoardSize * BoardSize)
    /\ [](state.moves = BoardSize * BoardSize => state.status # "in_progress")
    /\ [](state.status = "in_progress" =>
             \E row \in Idx, col \in Idx : apply_move_error(state, row, col) = None)
    /\ <>(state.status \in {"x_won", "o_won", "draw"})

\* C26 case: the ninth apply_move call succeeded and ended the game.
C26_Witness ==
    /\ last.kind = "ok"
    /\ nApplied = BoardSize * BoardSize
    /\ state.status \in {"draw", "x_won", "o_won"}
    /\ Count(state.board, "") = 0

\* C27: the request handlers work on one game store: a get, move or ai-move
\* request for the id of a game created by an earlier create request finds
\* the game, and a list request from offset 0 with room for all created
\* games shows every one of them.
C27_OneStore ==
    /\ (ret.op \in {"get_game", "post_move", "post_ai_move"} /\ ret.id \in usedIds)
          => ret.status # 404
    /\ (ret.op = "list_games" /\ ret.offset = 0
          /\ ret.limit >= Cardinality(usedIds))
          => \A id \in usedIds : \E i \in 1..Len(ret.items) : ret.items[i].id = id
====
